---------------------------- MODULE Spec2Model ----------------------------
(***************************************************************************)
(* A model of rustycubes (src/src/main.rs): the Bresenham rasterizer       *)
(* draw_line, the projection project, the input thread of                  *)
(* spawn_input_thread, and the animation loop of main with the channel,    *)
(* the two shared angles and their mutexes, and the frames it prints.      *)
(***************************************************************************)
EXTENDS Integers, Sequences, FiniteSets, TLC

VARIABLES
    \* draw_line
    line,       \* its locals: x0, y0, x1, y1, dx, dy, sx, sy, err, and its position
    screen,     \* its buffer: the cells written so far (every other cell is Blank)
    path,       \* history: the (x0, y0) of every iteration of its loop so far
    from,       \* history: its first argument
    \* the input thread of spawn_input_thread
    rpc,        \* its position: "read" (blocked in stdin.read) or "decode"
    buf,        \* its 3-byte buffer
    rd,         \* what the last stdin.read returned: Ok(n) or Err
    queue,      \* the channel: the events sent and not yet received
    \* the animation loop of main
    mpc,        \* its position
    ev,         \* (dx, dy), the event the drain is applying
    angle_x,    \* the shared angles
    angle_y,
    ax,         \* the angles read for the frame
    ay,
    frame,      \* the frame printed last: its angles, vertices and buffer, and
                \* (history) whether a cell marked in the frame before it is not in it
    locks,      \* the two mutexes of the angles: whether each is locked
    \* project, called on its own
    proj,       \* its argument, its position, and what it returned
    \* history, read by the properties only
    hist,       \* the events sent, their key codes, the events received, and counts
    window,     \* the last two bytes stdin has delivered
    tick,       \* the angles at the start of this tick, and whether its drain received
    pre,        \* the angles before the event applied last, and whether it is applied
    seen,       \* how many events the x and the y read for the frame included
    mark        \* one event followed from the channel to a frame

lineVars == <<line, screen, path, from>>

readerVars == <<rpc, buf, rd>>

mainVars == <<mpc, ev, angle_x, angle_y, ax, ay, frame, locks>>

histVars == <<hist, window, tick, pre, seen, mark>>

sysVars == <<readerVars, queue, mainVars, histVars>>

vars == <<lineVars, sysVars, proj>>

-----------------------------------------------------------------------------
(* Program constants.                                                      *)

WIDTH == 80

HEIGHT == 24

Marker == "#"

Blank == " "

(* Bounds of the model.                                                     *)

\* draw_line's endpoints are drawn from the columns and rows within LineSpan
\* of each edge of the buffer, and the LineSpan columns and rows past it.
LineSpan == 1

\* The short lines tried: those from such a point to every point at most
\* LineReach columns and rows away.
LineReach == 4

\* The input thread's stdin.read returns at most MaxReads times.
MaxReads == 3

\* project is tried on the coordinates that are a whole number of halves
\* from -ProjReach to ProjReach (and, for x and y, on two huge ones).
ProjReach == 4

\* Under FloodSpec stdin never runs dry, and a key arrives only while fewer
\* than MaxQueue events wait in the channel and while the keys so far leave
\* each angle within MaxTurn key presses of 0.
MaxQueue == 2

MaxTurn == 1

-----------------------------------------------------------------------------
(* draw_line                                                               *)

Abs(i) == IF i < 0 THEN -i ELSE i

Max(a, b) == IF a >= b THEN a ELSE b

Min(a, b) == IF a <= b THEN a ELSE b

\* The usize arguments draw_line is tried on: both edges of the buffer, and
\* coordinates past its right and bottom edge.
LineXs == (0 .. LineSpan) \cup ((WIDTH - 1 - LineSpan) .. (WIDTH + LineSpan - 1))

LineYs == (0 .. LineSpan) \cup ((HEIGHT - 1 - LineSpan) .. (HEIGHT + LineSpan - 1))

\* The second endpoints tried with the first endpoint (ax0, ay0): the long
\* lines to the same columns and rows, and the short lines around it.
LineEnds(ax0, ay0) ==
    (LineXs \X LineYs)
    \cup {q \in ((ax0 - LineReach) .. (ax0 + LineReach))
                   \X ((ay0 - LineReach) .. (ay0 + LineReach)) :
            q[1] >= 0 /\ q[2] >= 0}

\* vec![vec![' '; WIDTH]; HEIGHT], kept as the function from the written cells
\* to what was written; indexing outside HEIGHT x WIDTH panics.
IndexOk(x, y) == x >= 0 /\ x < WIDTH /\ y >= 0 /\ y < HEIGHT

CellAt(s, x, y) == IF <<x, y>> \in DOMAIN s THEN s[<<x, y>>] ELSE Blank

ScreenWrite(s, x, y, ch) ==
    [c \in DOMAIN s \cup {<<x, y>>} |-> IF c = <<x, y>> THEN ch ELSE s[c]]

BlankScreen == [c \in {} |-> Blank]

\* The test before the write with strict lower bounds.
PlotGuardStrict(x, y) == x > 0 /\ x < WIDTH /\ y > 0 /\ y < HEIGHT

\* The test before the write with an off-by-one upper bound.
PlotGuardInclusive(x, y) == x >= 0 /\ x <= WIDTH /\ y >= 0 /\ y <= HEIGHT

\* main.rs:65, the test before the write.
PlotGuard(x, y) == x >= 0 /\ x < WIDTH /\ y >= 0 /\ y < HEIGHT

\* Step directions that always go right and down.
StepDirForward(a, b) == 1

\* main.rs:61-62, the step directions.
StepDir(a, b) == IF a < b THEN 1 ELSE -1

\* main.rs:58-63, the locals on entry to the loop.
LineEntry(ax0, ay0, ax1, ay1) ==
    [x0 |-> ax0, y0 |-> ay0, x1 |-> ax1, y1 |-> ay1,
     dx |-> Abs(ax1 - ax0), dy |-> -Abs(ay1 - ay0),
     sx |-> StepDir(ax0, ax1), sy |-> StepDir(ay0, ay1),
     err |-> Abs(ax1 - ax0) + (-Abs(ay1 - ay0)),
     pc |-> "plot"]

\* The advance with the second test made on the updated error term.
AdvanceStaleless(l) ==
    LET l1 == IF 2 * l.err >= l.dy
              THEN [l EXCEPT !.err = l.err + l.dy, !.x0 = l.x0 + l.sx] ELSE l
        l2 == IF 2 * l1.err <= l.dx
              THEN [l1 EXCEPT !.err = l1.err + l.dx, !.y0 = l1.y0 + l.sy] ELSE l1
    IN  [l2 EXCEPT !.pc = "plot"]

\* The advance with the y step taken along sx.
AdvanceWrongSign(l) ==
    LET l1 == IF 2 * l.err >= l.dy
              THEN [l EXCEPT !.err = l.err + l.dy, !.x0 = l.x0 + l.sx] ELSE l
        l2 == IF 2 * l.err <= l.dx
              THEN [l1 EXCEPT !.err = l1.err + l.dx, !.y0 = l1.y0 + l.sx] ELSE l1
    IN  [l2 EXCEPT !.pc = "plot"]

\* main.rs:69-71, one advance of the current point: both tests are made on
\* e2, the doubled error term as it was before either update.
Advance(l) ==
    LET e2 == 2 * l.err
        l1 == IF e2 >= l.dy
              THEN [l EXCEPT !.err = l.err + l.dy, !.x0 = l.x0 + l.sx] ELSE l
        l2 == IF e2 <= l.dx
              THEN [l1 EXCEPT !.err = l1.err + l.dx, !.y0 = l1.y0 + l.sy] ELSE l1
    IN  [l2 EXCEPT !.pc = "plot"]

\* main.rs:65-67: plot the current point if it is inside the buffer.
LinePlot ==
    /\ line.pc = "plot"
    /\ path' = Append(path, <<line.x0, line.y0>>)
    /\ IF PlotGuard(line.x0, line.y0)
       THEN IF IndexOk(line.x0, line.y0)
            THEN /\ screen' = ScreenWrite(screen, line.x0, line.y0, Marker)
                 /\ line' = [line EXCEPT !.pc = "test"]
            ELSE /\ screen' = screen
                 /\ line' = [line EXCEPT !.pc = "panic"]
       ELSE /\ screen' = screen
            /\ line' = [line EXCEPT !.pc = "test"]
    /\ UNCHANGED <<from, sysVars, proj>>

\* The test of the break with "or" for "and".
AtEndEither(l) == l.x0 = l.x1 \/ l.y0 = l.y1

\* main.rs:68, the test of the break.
AtEnd(l) == l.x0 = l.x1 /\ l.y0 = l.y1

\* main.rs:68: leave the loop at the endpoint.
LineBreak ==
    /\ line.pc = "test"
    /\ AtEnd(line)
    /\ line' = [line EXCEPT !.pc = "done"]
    /\ UNCHANGED <<screen, path, from, sysVars, proj>>

\* main.rs:68-71: not at the endpoint, advance.
LineStep ==
    /\ line.pc = "test"
    /\ ~AtEnd(line)
    /\ line' = Advance(line)
    /\ UNCHANGED <<screen, path, from, sysVars, proj>>

-----------------------------------------------------------------------------
(* f32 arithmetic.  An f32 is kept as the integer number of units of 2^-28 *)
(* it equals; every value below is a whole number of units.  A sum is      *)
(* rounded to 24 significant bits, to nearest, ties to even, as IEEE 754   *)
(* addition does.                                                          *)

\* The significand of an f32 has 24 bits: 2^24.
F32Significand == 16777216

\* 0.1f32 = 13421773 * 2^-27, in units of 2^-28.
Tenth == 26843546

RECURSIVE Quantum(_, _)
\* The spacing of the f32 values around magnitude a: the least power of two
\* q with a < 2^24 * q.
Quantum(a, q) == IF a \div q < F32Significand THEN q ELSE Quantum(a, 2 * q)

F32Round(v) ==
    LET a  == Abs(v)
        q  == Quantum(a, 1)
        lo == (a \div q) * q
        r  == a - lo
        up == 2 * r > q \/ (2 * r = q /\ (a \div q) % 2 = 1)
        m  == IF up THEN lo + q ELSE lo
    IN  IF v < 0 THEN -m ELSE m

\* a + b on f32.
F32Add(a, b) == F32Round(a + b)

\* a * 0.5 on f32: exact, and a whole number of units for the even a here.
F32Half(a) == a \div 2

-----------------------------------------------------------------------------
(* f32 coordinates (rotate, project).  A coordinate is kept as a record:   *)
(* "fin" for the number (n / d) * 2^e, with n / d in lowest terms and      *)
(* d > 0; "inf" for an infinity of sign n; "nan".  e is 0 except for the   *)
(* huge values, far beyond every isize.  The arithmetic is exact in these  *)
(* numbers: it is f32 arithmetic wherever the operands and the result are  *)
(* f32 values (IsF32), which holds for every value it is applied to here.  *)

\* The finite f32 values are below 2^128.
F32MaxExp == 128

\* The exponent of the huge values tried.
HugeExp == F32MaxExp - 4

RECURSIVE Gcd(_, _)
Gcd(m, j) == IF j = 0 THEN m ELSE Gcd(j, m % j)

RECURSIVE Pow2(_)
Pow2(j) == IF j = 0 THEN 1 ELSE 2 * Pow2(j - 1)

Sgn(i) == IF i < 0 THEN -1 ELSE IF i > 0 THEN 1 ELSE 0

NaN == [k |-> "nan", n |-> 0, d |-> 1, e |-> 0]

Inf(sign) == [k |-> "inf", n |-> sign, d |-> 1, e |-> 0]

\* The f32 for (n / d) * 2^e, d > 0: an infinity from 2^F32MaxExp on.
Fl(n, d, e) ==
    IF n = 0 THEN [k |-> "fin", n |-> 0, d |-> 1, e |-> 0]
    ELSE IF e > 0 /\ (e >= F32MaxExp \/ Abs(n) >= d * Pow2(F32MaxExp - e))
    THEN Inf(Sgn(n))
    ELSE LET g == Gcd(Abs(n), d)
         IN  [k |-> "fin", n |-> n \div g, d |-> d \div g, e |-> e]

FlInt(i) == Fl(i, 1, 0)

\* a * b on f32; 0 * infinity is NaN.
FlMul(a, b) ==
    IF a.k = "nan" \/ b.k = "nan" THEN NaN
    ELSE IF a.k = "inf" \/ b.k = "inf"
    THEN IF a.n = 0 \/ b.n = 0 THEN NaN ELSE Inf(Sgn(a.n) * Sgn(b.n))
    ELSE Fl(a.n * b.n, a.d * b.d, a.e + b.e)

\* a / b on f32: no trap on a zero divisor; x / 0 is an infinity of the sign
\* of x (the zero of an exact cancellation is +0) and 0 / 0 is NaN.
FlDiv(a, b) ==
    IF a.k = "nan" \/ b.k = "nan" THEN NaN
    ELSE IF a.k = "inf"
    THEN IF b.k = "inf" THEN NaN ELSE Inf(IF b.n < 0 THEN -a.n ELSE a.n)
    ELSE IF b.k = "inf" THEN FlInt(0)
    ELSE IF b.n = 0
    THEN IF a.n = 0 THEN NaN ELSE Inf(Sgn(a.n))
    ELSE Fl(a.n * b.d * Sgn(b.n), a.d * Abs(b.n), a.e - b.e)

\* a + b on f32; a huge value added to one that is not is left as it is.
FlAdd(a, b) ==
    IF a.k = "nan" \/ b.k = "nan" THEN NaN
    ELSE IF a.k = "inf" THEN (IF b.k = "inf" /\ b.n # a.n THEN NaN ELSE a)
    ELSE IF b.k = "inf" THEN b
    ELSE IF a.e = b.e THEN Fl(a.n * b.d + b.n * a.d, a.d * b.d, a.e)
    ELSE IF a.e > b.e THEN a ELSE b

FlNeg(a) == [a EXCEPT !.n = -a.n]

FlSub(a, b) == FlAdd(a, FlNeg(b))

\* Whether a is an f32 value: a NaN, an infinity, or a number whose
\* denominator is a power of two and whose numerator has at most 24 bits.
IsF32(a) ==
    a.k = "fin" => /\ Abs(a.n) < F32Significand
                   /\ \E j \in 0 .. 23 : a.d = Pow2(j)

\* a as isize: the number truncated towards zero, saturated at the ends of
\* isize (sat is -1 or 1 there), and 0 for NaN.
ToISize(a) ==
    IF a.k = "nan" THEN [sat |-> 0, n |-> 0]
    ELSE IF a.k = "inf" \/ a.e > 0 THEN [sat |-> Sgn(a.n), n |-> 0]
    ELSE [sat |-> 0, n |-> Sgn(a.n) * (Abs(a.n) \div a.d)]

\* A clamp from above only, with the result cast to usize all the same: an
\* i below lo is returned as it is, the least isize as lo - 1.
ClampAbove(i, lo, hi) ==
    IF i.sat = 1 \/ (i.sat = 0 /\ i.n > hi) THEN hi
    ELSE IF i.sat = -1 THEN lo - 1
    ELSE i.n

\* i.clamp(lo, hi) as usize, for lo <= hi.
Clamp(i, lo, hi) ==
    IF i.sat = -1 \/ (i.sat = 0 /\ i.n < lo) THEN lo
    ELSE IF i.sat = 1 \/ (i.sat = 0 /\ i.n > hi) THEN hi
    ELSE i.n

\* main.rs:7-8.
DISTANCE == FlInt(3)

SCALE == FlInt(20)

Vec3(x, y, z) == [x |-> x, y |-> y, z |-> z]

\* The factor without the depth.
FactorFlat(v) == FlDiv(SCALE, DISTANCE)

\* main.rs:47, the perspective factor.
Factor(v) == FlDiv(SCALE, FlAdd(v.z, DISTANCE))

\* main.rs:48-49, a screen coordinate before the cast: c * factor + size / 2.
Centred(c, factor, size) == FlAdd(FlMul(c, factor), FlDiv(FlInt(size), FlInt(2)))

\* main.rs:46-54, project: the two casts as they are (raw) and clamped
\* (x, y); clamp panics if its lower bound is above its upper bound.
Project(v) ==
    LET factor == Factor(v)
        x == ToISize(Centred(v.x, factor, WIDTH))
        y == ToISize(Centred(v.y, factor, HEIGHT))
    IN  [panic |-> 0 > WIDTH - 1 \/ 0 > HEIGHT - 1,
         raw |-> <<x, y>>,
         x |-> Clamp(x, 0, WIDTH - 1),
         y |-> Clamp(y, 0, HEIGHT - 1)]

\* Whether every f32 operation of project is exact on v.
ProjectExact(v) ==
    LET factor == Factor(v)
    IN  /\ IsF32(v.x) /\ IsF32(v.y) /\ IsF32(v.z)
        /\ IsF32(FlAdd(v.z, DISTANCE)) /\ IsF32(factor)
        /\ IsF32(FlMul(v.x, factor)) /\ IsF32(Centred(v.x, factor, WIDTH))
        /\ IsF32(FlMul(v.y, factor)) /\ IsF32(Centred(v.y, factor, HEIGHT))

\* The coordinates project is tried on.
ProjCoords == {Fl(i, 2, 0) : i \in (-2 * ProjReach) .. (2 * ProjReach)}

ProjHuge == {Fl(1, 1, HugeExp), Fl(-1, 1, HugeExp)}

ProjInputs ==
    {v \in [x : ProjCoords \cup ProjHuge, y : ProjCoords \cup ProjHuge, z : ProjCoords] :
        ProjectExact(v)}

\* project(v) is called and returns.
ProjectCall ==
    /\ proj.pc = "call"
    /\ proj' = [proj EXCEPT !.pc = "done", !.out = Project(proj.v)]
    /\ UNCHANGED <<lineVars, sysVars>>

-----------------------------------------------------------------------------
(* The cube and its frame (rotate, main).                                  *)

\* main.rs:6.
CUBE_SIZE == FlInt(1)

\* main.rs:106-115, the vertices; vertex i of the source is cube[i + 1].
cube ==
    <<Vec3(FlNeg(CUBE_SIZE), FlNeg(CUBE_SIZE), FlNeg(CUBE_SIZE)),
      Vec3(CUBE_SIZE, FlNeg(CUBE_SIZE), FlNeg(CUBE_SIZE)),
      Vec3(CUBE_SIZE, CUBE_SIZE, FlNeg(CUBE_SIZE)),
      Vec3(FlNeg(CUBE_SIZE), CUBE_SIZE, FlNeg(CUBE_SIZE)),
      Vec3(FlNeg(CUBE_SIZE), FlNeg(CUBE_SIZE), CUBE_SIZE),
      Vec3(CUBE_SIZE, FlNeg(CUBE_SIZE), CUBE_SIZE),
      Vec3(CUBE_SIZE, CUBE_SIZE, CUBE_SIZE),
      Vec3(FlNeg(CUBE_SIZE), CUBE_SIZE, CUBE_SIZE)>>

\* main.rs:117-121, the edges, as pairs of the source's vertex numbers.
edges ==
    <<<<0, 1>>, <<1, 2>>, <<2, 3>>, <<3, 0>>,
      <<4, 5>>, <<5, 6>>, <<6, 7>>, <<7, 4>>,
      <<0, 4>>, <<1, 5>>, <<2, 6>>, <<3, 7>>>>

\* sin and cos on f32, at the one angle where both are f32 values exactly.
Sin(a) == CASE a = 0 -> FlInt(0)

Cos(a) == CASE a = 0 -> FlInt(1)

\* main.rs:18-43, rotate: about the x axis, then y, then z.
Rotate(v, rax, ray, raz) ==
    LET sinx == Sin(rax)
        cosx == Cos(rax)
        v1 == Vec3(v.x,
                   FlSub(FlMul(v.y, cosx), FlMul(v.z, sinx)),
                   FlAdd(FlMul(v.y, sinx), FlMul(v.z, cosx)))
        siny == Sin(ray)
        cosy == Cos(ray)
        v2 == Vec3(FlAdd(FlMul(v1.x, cosy), FlMul(v1.z, siny)),
                   v1.y,
                   FlAdd(FlMul(FlNeg(v1.x), siny), FlMul(v1.z, cosy)))
        sinz == Sin(raz)
        cosz == Cos(raz)
    IN  Vec3(FlSub(FlMul(v2.x, cosz), FlMul(v2.y, sinz)),
             FlAdd(FlMul(v2.x, sinz), FlMul(v2.y, cosz)),
             v2.z)

\* main.rs:148-153 at the other angles: project(rotate(v, ax, ay, az)) of
\* the eight vertices in turn, for az = ax * 0.5 + ay * 0.5 and each pair
\* <<ax, ay>> (in units of 2^-28) that five key presses or fewer lead to,
\* as f32 arithmetic with the C library's sinf and cosf evaluates lines
\* 18-54.  No value cast there is nearer than 0.001 to a whole number, so
\* the last bit of a sine or cosine does not change an entry.
PoseTable ==
       <<-134217728, 0>> :> <<<<29, 3>>, <<44, 0>>, <<52, 13>>, <<29, 19>>, <<35, 11>>, <<43, 9>>, <<47, 18>>, <<36, 21>>>>
    @@ <<-107374184, -26843546>> :> <<<<29, 3>>, <<45, 0>>, <<53, 14>>, <<31, 21>>, <<34, 10>>, <<43, 8>>, <<46, 17>>, <<35, 20>>>>
    @@ <<-107374184, 0>> :> <<<<29, 3>>, <<45, 0>>, <<52, 15>>, <<29, 20>>, <<34, 10>>, <<44, 8>>, <<47, 18>>, <<35, 20>>>>
    @@ <<-107374184, 26843546>> :> <<<<30, 3>>, <<46, 0>>, <<51, 16>>, <<28, 19>>, <<35, 10>>, <<44, 8>>, <<47, 18>>, <<35, 19>>>>
    @@ <<-80530640, -53687092>> :> <<<<29, 2>>, <<46, 0>>, <<53, 15>>, <<33, 22>>, <<33, 10>>, <<42, 8>>, <<45, 17>>, <<35, 20>>>>
    @@ <<-80530640, -26843546>> :> <<<<29, 2>>, <<46, 0>>, <<53, 16>>, <<31, 21>>, <<34, 9>>, <<43, 8>>, <<46, 17>>, <<35, 20>>>>
    @@ <<-80530640, 0>> :> <<<<29, 2>>, <<46, 0>>, <<52, 17>>, <<29, 21>>, <<34, 9>>, <<44, 8>>, <<46, 17>>, <<35, 19>>>>
    @@ <<-80530640, 26843546>> :> <<<<30, 2>>, <<47, 0>>, <<51, 18>>, <<28, 20>>, <<35, 9>>, <<45, 8>>, <<46, 18>>, <<35, 19>>>>
    @@ <<-80530640, 53687092>> :> <<<<30, 2>>, <<47, 0>>, <<49, 19>>, <<27, 19>>, <<36, 9>>, <<45, 8>>, <<46, 18>>, <<35, 18>>>>
    @@ <<-53687096, -26843546>> :> <<<<29, 2>>, <<47, 0>>, <<52, 18>>, <<31, 22>>, <<34, 9>>, <<43, 7>>, <<45, 17>>, <<35, 19>>>>
    @@ <<-53687096, 0>> :> <<<<29, 2>>, <<47, 0>>, <<51, 19>>, <<29, 21>>, <<34, 8>>, <<44, 7>>, <<45, 17>>, <<35, 18>>>>
    @@ <<-53687096, 26843546>> :> <<<<30, 2>>, <<48, 0>>, <<50, 20>>, <<28, 20>>, <<35, 8>>, <<45, 7>>, <<46, 18>>, <<35, 18>>>>
    @@ <<-53687092, -80530640>> :> <<<<29, 2>>, <<46, 0>>, <<53, 16>>, <<34, 23>>, <<32, 9>>, <<41, 7>>, <<44, 16>>, <<35, 20>>>>
    @@ <<-53687092, -53687092>> :> <<<<29, 2>>, <<47, 0>>, <<53, 17>>, <<33, 23>>, <<33, 9>>, <<42, 7>>, <<45, 17>>, <<35, 19>>>>
    @@ <<-53687092, -26843546>> :> <<<<29, 2>>, <<47, 0>>, <<52, 18>>, <<31, 22>>, <<34, 9>>, <<43, 7>>, <<45, 17>>, <<35, 19>>>>
    @@ <<-53687092, 0>> :> <<<<29, 2>>, <<47, 0>>, <<51, 19>>, <<29, 21>>, <<34, 8>>, <<44, 7>>, <<45, 17>>, <<35, 18>>>>
    @@ <<-53687092, 26843546>> :> <<<<30, 2>>, <<48, 0>>, <<50, 20>>, <<28, 20>>, <<35, 8>>, <<45, 7>>, <<46, 18>>, <<35, 18>>>>
    @@ <<-53687092, 53687092>> :> <<<<30, 2>>, <<48, 0>>, <<49, 21>>, <<28, 19>>, <<36, 8>>, <<46, 8>>, <<46, 18>>, <<35, 17>>>>
    @@ <<-53687092, 80530640>> :> <<<<31, 2>>, <<47, 0>>, <<47, 22>>, <<27, 18>>, <<37, 8>>, <<47, 8>>, <<46, 19>>, <<36, 17>>>>
    @@ <<-26843550, 0>> :> <<<<29, 2>>, <<48, 1>>, <<50, 20>>, <<29, 21>>, <<34, 7>>, <<44, 7>>, <<45, 17>>, <<35, 17>>>>
    @@ <<-26843546, -107374184>> :> <<<<30, 1>>, <<47, 1>>, <<52, 16>>, <<36, 23>>, <<31, 9>>, <<41, 7>>, <<43, 16>>, <<34, 20>>>>
    @@ <<-26843546, -80530640>> :> <<<<30, 1>>, <<48, 1>>, <<52, 17>>, <<34, 23>>, <<32, 8>>, <<42, 7>>, <<44, 16>>, <<34, 19>>>>
    @@ <<-26843546, -53687096>> :> <<<<30, 1>>, <<48, 1>>, <<52, 18>>, <<32, 23>>, <<33, 8>>, <<42, 7>>, <<44, 16>>, <<34, 18>>>>
    @@ <<-26843546, -53687092>> :> <<<<30, 1>>, <<48, 1>>, <<52, 18>>, <<32, 23>>, <<33, 8>>, <<42, 7>>, <<44, 16>>, <<34, 18>>>>
    @@ <<-26843546, -26843546>> :> <<<<29, 2>>, <<48, 1>>, <<51, 19>>, <<31, 22>>, <<34, 8>>, <<43, 7>>, <<45, 17>>, <<34, 18>>>>
    @@ <<-26843546, 0>> :> <<<<29, 2>>, <<48, 1>>, <<50, 20>>, <<29, 21>>, <<34, 7>>, <<44, 7>>, <<45, 17>>, <<35, 17>>>>
    @@ <<-26843546, 26843546>> :> <<<<30, 2>>, <<49, 1>>, <<49, 21>>, <<29, 20>>, <<35, 7>>, <<45, 7>>, <<45, 17>>, <<35, 17>>>>
    @@ <<-26843546, 53687092>> :> <<<<30, 2>>, <<48, 1>>, <<48, 22>>, <<28, 19>>, <<36, 7>>, <<46, 7>>, <<45, 18>>, <<35, 17>>>>
    @@ <<-26843546, 53687096>> :> <<<<30, 2>>, <<48, 1>>, <<48, 22>>, <<28, 19>>, <<36, 7>>, <<46, 7>>, <<45, 18>>, <<35, 17>>>>
    @@ <<-26843546, 80530640>> :> <<<<30, 2>>, <<48, 0>>, <<46, 23>>, <<27, 18>>, <<37, 7>>, <<47, 7>>, <<46, 18>>, <<36, 16>>>>
    @@ <<-26843546, 107374184>> :> <<<<31, 2>>, <<48, 0>>, <<44, 23>>, <<27, 17>>, <<38, 7>>, <<48, 8>>, <<46, 19>>, <<36, 16>>>>
    @@ <<0, -134217728>> :> <<<<32, 1>>, <<48, 1>>, <<52, 16>>, <<38, 23>>, <<30, 8>>, <<40, 7>>, <<42, 15>>, <<33, 19>>>>
    @@ <<0, -107374184>> :> <<<<31, 1>>, <<48, 1>>, <<52, 17>>, <<36, 23>>, <<31, 7>>, <<41, 6>>, <<43, 16>>, <<33, 19>>>>
    @@ <<0, -80530640>> :> <<<<30, 1>>, <<49, 1>>, <<51, 18>>, <<34, 23>>, <<32, 7>>, <<42, 6>>, <<43, 16>>, <<34, 18>>>>
    @@ <<0, -53687096>> :> <<<<30, 1>>, <<49, 1>>, <<51, 19>>, <<32, 23>>, <<33, 7>>, <<43, 6>>, <<44, 16>>, <<34, 17>>>>
    @@ <<0, -53687092>> :> <<<<30, 1>>, <<49, 1>>, <<51, 19>>, <<32, 23>>, <<33, 7>>, <<43, 6>>, <<44, 16>>, <<34, 17>>>>
    @@ <<0, -26843550>> :> <<<<30, 1>>, <<49, 1>>, <<50, 20>>, <<31, 22>>, <<34, 7>>, <<44, 6>>, <<44, 16>>, <<34, 17>>>>
    @@ <<0, -26843546>> :> <<<<30, 1>>, <<49, 1>>, <<50, 20>>, <<31, 22>>, <<34, 7>>, <<44, 6>>, <<44, 16>>, <<34, 17>>>>
    @@ <<0, 0>> :> <<<<30, 2>>, <<50, 2>>, <<50, 22>>, <<30, 22>>, <<35, 7>>, <<45, 7>>, <<45, 17>>, <<35, 17>>>>
    @@ <<0, 26843546>> :> <<<<30, 1>>, <<49, 1>>, <<48, 22>>, <<29, 20>>, <<35, 6>>, <<45, 7>>, <<45, 17>>, <<35, 16>>>>
    @@ <<0, 26843550>> :> <<<<30, 1>>, <<49, 1>>, <<48, 22>>, <<29, 20>>, <<35, 6>>, <<45, 7>>, <<45, 17>>, <<35, 16>>>>
    @@ <<0, 53687092>> :> <<<<30, 1>>, <<49, 1>>, <<47, 23>>, <<28, 19>>, <<36, 6>>, <<46, 7>>, <<45, 17>>, <<35, 16>>>>
    @@ <<0, 53687096>> :> <<<<30, 1>>, <<49, 1>>, <<47, 23>>, <<28, 19>>, <<36, 6>>, <<46, 7>>, <<45, 17>>, <<35, 16>>>>
    @@ <<0, 80530640>> :> <<<<30, 1>>, <<49, 1>>, <<45, 23>>, <<28, 18>>, <<37, 6>>, <<47, 7>>, <<45, 18>>, <<36, 16>>>>
    @@ <<0, 107374184>> :> <<<<31, 1>>, <<48, 1>>, <<43, 23>>, <<27, 17>>, <<38, 6>>, <<48, 7>>, <<46, 19>>, <<36, 16>>>>
    @@ <<0, 134217728>> :> <<<<31, 1>>, <<47, 1>>, <<41, 23>>, <<27, 16>>, <<39, 7>>, <<49, 8>>, <<46, 19>>, <<37, 15>>>>
    @@ <<26843546, -107374184>> :> <<<<32, 1>>, <<50, 2>>, <<51, 18>>, <<35, 23>>, <<31, 6>>, <<41, 6>>, <<42, 15>>, <<33, 18>>>>
    @@ <<26843546, -80530640>> :> <<<<31, 2>>, <<50, 2>>, <<50, 19>>, <<33, 23>>, <<32, 6>>, <<42, 6>>, <<43, 15>>, <<33, 17>>>>
    @@ <<26843546, -53687096>> :> <<<<30, 2>>, <<50, 3>>, <<50, 20>>, <<32, 23>>, <<33, 6>>, <<43, 6>>, <<43, 16>>, <<34, 16>>>>
    @@ <<26843546, -53687092>> :> <<<<30, 2>>, <<50, 3>>, <<50, 20>>, <<32, 23>>, <<33, 6>>, <<43, 6>>, <<43, 16>>, <<34, 16>>>>
    @@ <<26843546, -26843546>> :> <<<<30, 2>>, <<50, 3>>, <<49, 21>>, <<30, 22>>, <<34, 6>>, <<44, 6>>, <<44, 16>>, <<34, 16>>>>
    @@ <<26843546, 0>> :> <<<<29, 2>>, <<50, 3>>, <<48, 22>>, <<29, 21>>, <<35, 6>>, <<45, 6>>, <<44, 16>>, <<34, 16>>>>
    @@ <<26843546, 26843546>> :> <<<<29, 2>>, <<50, 3>>, <<47, 23>>, <<29, 20>>, <<36, 6>>, <<46, 6>>, <<45, 17>>, <<35, 15>>>>
    @@ <<26843546, 53687092>> :> <<<<30, 1>>, <<50, 3>>, <<46, 23>>, <<28, 19>>, <<36, 6>>, <<47, 7>>, <<45, 17>>, <<35, 15>>>>
    @@ <<26843546, 53687096>> :> <<<<30, 1>>, <<50, 3>>, <<46, 23>>, <<28, 19>>, <<36, 6>>, <<47, 7>>, <<45, 17>>, <<35, 15>>>>
    @@ <<26843546, 80530640>> :> <<<<30, 1>>, <<49, 2>>, <<44, 23>>, <<28, 18>>, <<37, 6>>, <<47, 7>>, <<45, 18>>, <<36, 15>>>>
    @@ <<26843546, 107374184>> :> <<<<30, 1>>, <<48, 2>>, <<43, 23>>, <<28, 17>>, <<38, 6>>, <<48, 7>>, <<45, 18>>, <<36, 15>>>>
    @@ <<26843550, 0>> :> <<<<29, 2>>, <<50, 3>>, <<48, 22>>, <<29, 21>>, <<35, 6>>, <<45, 6>>, <<44, 16>>, <<34, 16>>>>
    @@ <<53687092, -80530640>> :> <<<<31, 2>>, <<51, 4>>, <<49, 20>>, <<33, 23>>, <<32, 5>>, <<43, 5>>, <<42, 15>>, <<33, 16>>>>
    @@ <<53687092, -53687092>> :> <<<<30, 2>>, <<51, 4>>, <<49, 21>>, <<31, 23>>, <<33, 5>>, <<44, 6>>, <<43, 15>>, <<33, 15>>>>
    @@ <<53687092, -26843546>> :> <<<<30, 2>>, <<51, 4>>, <<48, 22>>, <<30, 22>>, <<34, 5>>, <<45, 6>>, <<43, 15>>, <<34, 15>>>>
    @@ <<53687092, 0>> :> <<<<29, 2>>, <<51, 4>>, <<47, 23>>, <<29, 21>>, <<35, 5>>, <<45, 6>>, <<44, 16>>, <<34, 15>>>>
    @@ <<53687092, 26843546>> :> <<<<29, 2>>, <<51, 4>>, <<46, 23>>, <<29, 20>>, <<36, 5>>, <<46, 6>>, <<44, 16>>, <<35, 15>>>>
    @@ <<53687092, 53687092>> :> <<<<29, 2>>, <<50, 4>>, <<45, 23>>, <<28, 19>>, <<37, 5>>, <<47, 6>>, <<45, 17>>, <<35, 14>>>>
    @@ <<53687092, 80530640>> :> <<<<30, 2>>, <<49, 4>>, <<44, 23>>, <<28, 18>>, <<37, 5>>, <<48, 7>>, <<45, 17>>, <<36, 14>>>>
    @@ <<53687096, -26843546>> :> <<<<30, 2>>, <<51, 4>>, <<48, 22>>, <<30, 22>>, <<34, 5>>, <<45, 6>>, <<43, 15>>, <<34, 15>>>>
    @@ <<53687096, 0>> :> <<<<29, 2>>, <<51, 4>>, <<47, 23>>, <<29, 21>>, <<35, 5>>, <<45, 6>>, <<44, 16>>, <<34, 15>>>>
    @@ <<53687096, 26843546>> :> <<<<29, 2>>, <<51, 4>>, <<46, 23>>, <<29, 20>>, <<36, 5>>, <<46, 6>>, <<44, 16>>, <<35, 15>>>>
    @@ <<80530640, -53687092>> :> <<<<31, 3>>, <<52, 5>>, <<48, 22>>, <<31, 23>>, <<33, 4>>, <<44, 5>>, <<43, 15>>, <<33, 14>>>>
    @@ <<80530640, -26843546>> :> <<<<30, 3>>, <<52, 6>>, <<47, 23>>, <<30, 22>>, <<34, 4>>, <<45, 5>>, <<43, 15>>, <<34, 14>>>>
    @@ <<80530640, 0>> :> <<<<29, 2>>, <<52, 6>>, <<46, 23>>, <<29, 21>>, <<35, 4>>, <<46, 6>>, <<44, 15>>, <<34, 14>>>>
    @@ <<80530640, 26843546>> :> <<<<29, 2>>, <<51, 6>>, <<45, 23>>, <<29, 20>>, <<36, 4>>, <<47, 6>>, <<44, 16>>, <<35, 14>>>>
    @@ <<80530640, 53687092>> :> <<<<29, 2>>, <<51, 6>>, <<44, 23>>, <<29, 19>>, <<37, 4>>, <<48, 6>>, <<45, 16>>, <<36, 14>>>>
    @@ <<107374184, -26843546>> :> <<<<30, 3>>, <<53, 8>>, <<46, 23>>, <<30, 21>>, <<35, 3>>, <<46, 5>>, <<43, 14>>, <<34, 13>>>>
    @@ <<107374184, 0>> :> <<<<29, 3>>, <<52, 8>>, <<45, 23>>, <<29, 20>>, <<35, 3>>, <<47, 5>>, <<44, 15>>, <<34, 13>>>>
    @@ <<107374184, 26843546>> :> <<<<29, 3>>, <<52, 8>>, <<44, 23>>, <<29, 19>>, <<36, 3>>, <<47, 6>>, <<44, 15>>, <<35, 13>>>>
    @@ <<134217728, 0>> :> <<<<29, 4>>, <<52, 10>>, <<44, 23>>, <<29, 20>>, <<36, 2>>, <<47, 5>>, <<43, 14>>, <<35, 12>>>>

\* main.rs:148-153, projected: the vertices rotated and projected.
Projected(rax, ray, raz) ==
    IF rax = 0 /\ ray = 0
    THEN [i \in 1 .. 8 |->
             LET q == Project(Rotate(cube[i], rax, ray, raz)) IN <<q.x, q.y>>]
    ELSE PoseTable[<<rax, ray>>]

RECURSIVE Plotted(_)
\* main.rs:64-72: the cells the loop of draw_line writes, from the locals l
\* on.
Plotted(l) ==
    (IF PlotGuard(l.x0, l.y0) THEN {<<l.x0, l.y0>>} ELSE {})
        \cup (IF AtEnd(l) THEN {} ELSE Plotted(Advance(l)))

\* main.rs:66 for each of the cells: the buffer s with the marker in them.
WriteAll(s, cells) ==
    [c \in DOMAIN s \cup cells |-> IF c \in cells THEN Marker ELSE s[c]]

\* main.rs:57-73, draw_line(p0, p1, s).
DrawLine(p0, p1, s) == WriteAll(s, Plotted(LineEntry(p0[1], p0[2], p1[1], p1[2])))

RECURSIVE DrawEdges(_, _, _)
\* main.rs:157-159: draw_line for each edge in turn.
DrawEdges(pts, es, s) ==
    IF es = <<>> THEN s
    ELSE DrawEdges(pts, Tail(es),
                   DrawLine(pts[Head(es)[1] + 1], pts[Head(es)[2] + 1], s))

\* main.rs:145, az for the angles <<ax, ay>> read.
AzOf(angles) == F32Add(F32Half(angles[1]), F32Half(angles[2]))

\* main.rs:148-159 for each pair of angles of PoseTable, worked out once:
\* projected, and the cells the twelve draw_line calls write on a blank
\* buffer.
ProjectedAt ==
    [angles \in DOMAIN PoseTable |-> Projected(angles[1], angles[2], AzOf(angles))]

DrawnAt ==
    [angles \in DOMAIN PoseTable |->
        DOMAIN DrawEdges(ProjectedAt[angles], edges, BlankScreen)]

\* The buffer of the frame before kept for the next.
ReusedScreen(old) == old

\* main.rs:156: the buffer is made anew, all blank, in every tick.
FreshScreen(old) == BlankScreen

\* main.rs:162-164: the lines printed, one for each row of the buffer.
PrintScreen(s) ==
    [r \in 1 .. HEIGHT |-> [c \in 1 .. WIDTH |-> CellAt(s, c - 1, r - 1)]]

-----------------------------------------------------------------------------
(* The input thread (spawn_input_thread).                                  *)

\* ESC [, the first two bytes of an arrow key's sequence.
EscPrefix == <<27, 91>>

\* A, B, C, D: the third byte for Up, Down, Right, Left.
ArrowCodes == {65, 66, 67, 68}

\* The bytes stdin delivers in SpecReader: ESC, [, A (Up), D (Left), and NUL
\* for every other byte.
StdinBytes == {0, 27, 91, 65, 68}

NoEvent == <<>>

\* What stdin.read(&mut buf) may return: Err, or Ok(n) with n bytes, 0 <= n <= 3.
ReadResults(bytes) ==
    {[ok |-> FALSE, bytes |-> <<>>]}
    \cup {[ok |-> TRUE, bytes |-> b] :
            b \in {<<>>} \cup [1 .. 1 -> bytes] \cup [1 .. 2 -> bytes] \cup [1 .. 3 -> bytes]}

AllReads == ReadResults(StdinBytes)

\* The reads tried beside the animation loop: the four arrow keys in one
\* read each, an error, end of input, a lone ESC, the rest of a split
\* sequence, and two 3-byte reads that are no arrow key.
KeyReads ==
    {[ok |-> FALSE, bytes |-> <<>>]}
    \cup {[ok |-> TRUE, bytes |-> b] :
            b \in {<<>>, <<27>>, <<91, 65>>, <<27, 91, 0>>, <<65, 27, 91>>}
                   \cup {EscPrefix \o <<c>> : c \in ArrowCodes}}

\* The reads tried for the frames: the four arrow keys in one read each.
ArrowReads == {[ok |-> TRUE, bytes |-> EscPrefix \o <<c>>] : c \in ArrowCodes}

\* The reads tried when the input never ends: Up, Down, and an error.
FloodReads ==
    {[ok |-> FALSE, bytes |-> <<>>],
     [ok |-> TRUE, bytes |-> <<27, 91, 65>>],
     [ok |-> TRUE, bytes |-> <<27, 91, 66>>]}

\* main.rs:83: a read of n bytes overwrites the first n bytes of buf.
ReadInto(b, bytes) == [i \in 1 .. 3 |-> IF i <= Len(bytes) THEN bytes[i] ELSE b[i]]

\* The decoding without the test of n: the buffer alone decides.
DecodeAnyLength(r, b) ==
    IF r.ok /\ b[1] = 27 /\ b[2] = 91
    THEN CASE b[3] = 65 -> <<Tenth, 0>>
           [] b[3] = 66 -> <<-Tenth, 0>>
           [] b[3] = 67 -> <<0, Tenth>>
           [] b[3] = 68 -> <<0, -Tenth>>
           [] OTHER -> NoEvent
    ELSE NoEvent

\* The decoding with Right and Left moving the x angle.
DecodeOneAxis(r, b) ==
    IF r.ok /\ r.n = 3 /\ b[1] = 27 /\ b[2] = 91
    THEN CASE b[3] = 65 -> <<Tenth, 0>>
           [] b[3] = 66 -> <<-Tenth, 0>>
           [] b[3] = 67 -> <<Tenth, 0>>
           [] b[3] = 68 -> <<-Tenth, 0>>
           [] OTHER -> NoEvent
    ELSE NoEvent

\* main.rs:83-93: the event sent for the read result r and the buffer b,
\* or NoEvent.
Decode(r, b) ==
    IF r.ok /\ r.n = 3 /\ b[1] = 27 /\ b[2] = 91
    THEN CASE b[3] = 65 -> <<Tenth, 0>>
           [] b[3] = 66 -> <<-Tenth, 0>>
           [] b[3] = 67 -> <<0, Tenth>>
           [] b[3] = 68 -> <<0, -Tenth>>
           [] OTHER -> NoEvent
    ELSE NoEvent

\* A send that gives the event up when one is already waiting.
SendIfEmpty(q, e) == IF q = <<>> THEN Append(q, e) ELSE q

\* main.rs:77, 87-90: tx.send on the unbounded mpsc::channel: it appends and
\* never waits.  (It fails only when the receiver is dropped; main keeps it.)
ChannelSend(q, e) == Append(q, e)

\* History: the arrow-key sequences in a byte string.
CountArrows(s) ==
    Cardinality({i \in 1 .. Len(s) - 2 :
                    <<s[i], s[i + 1]>> = EscPrefix /\ s[i + 2] \in ArrowCodes})

LastTwo(s) == IF Len(s) <= 2 THEN s ELSE SubSeq(s, Len(s) - 1, Len(s))

RECURSIVE SumFrom(_, _, _)
\* The f32 sum a + s[1][k] + ... + s[n][k], added in this order.
SumFrom(a, s, k) ==
    IF s = <<>> THEN a
    ELSE F32Add(SumFrom(a, SubSeq(s, 1, Len(s) - 1), k), s[Len(s)][k])

\* Whether the drain holds an event whose component k (1 for dx, 2 for dy)
\* it has not added yet.
NotAdded(k) ==
    \/ mpc \in {"lock_x", "add_x"}
    \/ mpc \in {"lock_y", "add_y"} /\ k = 2

\* What angle k (1 for x, 2 for y) comes to once every event sent so far is
\* applied: the event at hand if its component k is not added yet, then
\* those in the channel.
Pending(k) ==
    SumFrom(IF k = 1 THEN angle_x ELSE angle_y,
            (IF NotAdded(k) THEN <<ev>> ELSE <<>>) \o queue,
            k)

\* The keys FloodSpec lets arrive (see MaxQueue, MaxTurn).
FloodAllows(e) ==
    e # NoEvent =>
        /\ Len(queue) < MaxQueue
        /\ Abs(Pending(1) + e[1]) <= MaxTurn * Tenth
        /\ Abs(Pending(2) + e[2]) <= MaxTurn * Tenth

\* main.rs:83: stdin.read returns.  keep says whether the history is kept
\* (and the reads are counted against MaxReads).
ReaderRead(keep, results) ==
    /\ rpc = "read"
    /\ keep => hist.reads < MaxReads
    /\ \E o \in results :
          LET r == [ok |-> o.ok, n |-> Len(o.bytes)]
              b == ReadInto(buf, o.bytes)
          IN  /\ keep \/ FloodAllows(Decode(r, b))
              /\ rd' = r
              /\ buf' = b
              /\ window' = LastTwo(window \o o.bytes)
              /\ hist' = IF keep
                         THEN [hist EXCEPT !.reads = @ + 1,
                                           !.occ = @ + CountArrows(window \o o.bytes)]
                         ELSE hist
    /\ rpc' = "decode"
    /\ UNCHANGED <<queue, mainVars, tick, pre, seen, mark, lineVars, proj>>

\* main.rs:84-93: the test of the read and the send.  Without the history
\* (FloodSpec) an event sent may become the one followed by mark.
ReaderDecode(keep) ==
    /\ rpc = "decode"
    /\ LET e == Decode(rd, buf)
       IN  IF e # NoEvent
           THEN /\ queue' = ChannelSend(queue, e)
                /\ hist' = IF keep
                           THEN [hist EXCEPT !.sent = Append(@, e),
                                             !.keys = Append(@, buf[3])]
                           ELSE hist
                /\ \E follow \in BOOLEAN :
                      mark' = IF follow /\ ~keep /\ mark.at \in {"none", "framed"}
                              THEN [at |-> "queued", pos |-> Len(queue) + 1]
                              ELSE mark
           ELSE UNCHANGED <<queue, hist, mark>>
    /\ rpc' = "read"
    /\ UNCHANGED <<buf, rd, mainVars, window, tick, pre, seen, lineVars, proj>>

-----------------------------------------------------------------------------
(* The animation loop (main).                                              *)

\* main.rs:135: input_rx.try_recv(): the oldest event of the channel, or
\* Err(Empty) at once.
TryRecv(q) ==
    IF q = <<>>
    THEN [ok |-> FALSE, ev |-> <<0, 0>>, rest |-> q]
    ELSE [ok |-> TRUE, ev |-> Head(q), rest |-> Tail(q)]

\* main.rs:135: one test of the drain loop.
MainRecv(keep) ==
    /\ mpc = "recv"
    /\ LET r == TryRecv(queue)
       IN  /\ queue' = r.rest
           /\ IF r.ok
              THEN /\ mpc' = "lock_x"
                   /\ ev' = r.ev
                   /\ hist' = IF keep THEN [hist EXCEPT !.recvd = Append(@, r.ev)] ELSE hist
                   /\ tick' = [tick EXCEPT !.drained = TRUE]
                   /\ pre' = [x |-> angle_x, y |-> angle_y, done |-> FALSE]
                   /\ mark' = IF mark.at # "queued" THEN mark
                              ELSE IF mark.pos = 1 THEN [at |-> "taken", pos |-> 0]
                              ELSE [mark EXCEPT !.pos = @ - 1]
              ELSE /\ mpc' = "clear"
                   /\ UNCHANGED <<ev, hist, tick, pre, mark>>
    /\ UNCHANGED <<angle_x, angle_y, ax, ay, frame, locks, readerVars, window, seen, lineVars, proj>>

\* Mutex::lock: the mutex k is taken once it is free.
Lock(l, k) == [l EXCEPT ![k] = TRUE]

\* The guard of a lock kept past its statement: the mutex stays locked.
UnlockNever(l, k) == l

\* The guard returned by lock() is a temporary of the statement, dropped at
\* its end: the mutex k is free again.
Unlock(l, k) == [l EXCEPT ![k] = FALSE]

\* main.rs:136, 137, 143, 144: rx.lock() or ry.lock(): main waits at
\* position at for the mutex k to be free, takes it and goes on.
MainLock(at, k, then) ==
    /\ mpc = at
    /\ ~locks[k]
    /\ locks' = Lock(locks, k)
    /\ mpc' = then
    /\ UNCHANGED <<ev, angle_x, angle_y, ax, ay, frame, readerVars, queue,
                   histVars, lineVars, proj>>

\* main.rs:136: *rx.lock().unwrap() += dx.
MainAddX(keep) ==
    /\ mpc = "add_x"
    /\ angle_x' = F32Add(angle_x, ev[1])
    /\ hist' = IF keep THEN [hist EXCEPT !.nx = @ + 1] ELSE hist
    /\ locks' = Unlock(locks, "x")
    /\ mpc' = "lock_y"
    /\ UNCHANGED <<ev, angle_y, ax, ay, frame, readerVars, queue,
                   window, tick, pre, seen, mark, lineVars, proj>>

\* The drain without its second statement: dy is never added.
MainAddYLost(keep) ==
    /\ mpc = "add_y"
    /\ pre' = [pre EXCEPT !.done = TRUE]
    /\ mark' = IF mark.at = "taken" THEN [mark EXCEPT !.at = "applied"] ELSE mark
    /\ locks' = Unlock(locks, "y")
    /\ mpc' = "recv"
    /\ UNCHANGED <<ev, angle_x, angle_y, ax, ay, frame, readerVars, queue,
                   hist, window, tick, seen, lineVars, proj>>

\* main.rs:137: *ry.lock().unwrap() += dy.
MainAddY(keep) ==
    /\ mpc = "add_y"
    /\ angle_y' = F32Add(angle_y, ev[2])
    /\ hist' = IF keep THEN [hist EXCEPT !.ny = @ + 1] ELSE hist
    /\ pre' = [pre EXCEPT !.done = TRUE]
    /\ mark' = IF mark.at = "taken" THEN [mark EXCEPT !.at = "applied"] ELSE mark
    /\ locks' = Unlock(locks, "y")
    /\ mpc' = "recv"
    /\ UNCHANGED <<ev, angle_x, ax, ay, frame, readerVars, queue,
                   window, tick, seen, lineVars, proj>>

\* The angles read once, before the loop: after the clear main goes straight
\* to the render.
MainClearNoReread ==
    /\ mpc = "clear"
    /\ mpc' = "render"
    /\ UNCHANGED <<ev, angle_x, angle_y, ax, ay, frame, locks, readerVars, queue,
                   histVars, lineVars, proj>>

\* main.rs:141: print the clear-screen sequence.
MainClear ==
    /\ mpc = "clear"
    /\ mpc' = "rlock_x"
    /\ UNCHANGED <<ev, angle_x, angle_y, ax, ay, frame, locks, readerVars, queue,
                   histVars, lineVars, proj>>

\* main.rs:143: let ax = *rx.lock().unwrap().
MainReadX ==
    /\ mpc = "read_x"
    /\ ax' = angle_x
    /\ seen' = [seen EXCEPT !.x = hist.nx]
    /\ locks' = Unlock(locks, "x")
    /\ mpc' = "rlock_y"
    /\ UNCHANGED <<ev, angle_x, angle_y, ay, frame, readerVars, queue,
                   hist, window, tick, pre, mark, lineVars, proj>>

\* main.rs:144: let ay = *ry.lock().unwrap().
MainReadY ==
    /\ mpc = "read_y"
    /\ ay' = angle_y
    /\ seen' = [seen EXCEPT !.y = hist.ny]
    /\ mark' = IF mark.at = "applied" THEN [mark EXCEPT !.at = "read"] ELSE mark
    /\ locks' = Unlock(locks, "y")
    /\ mpc' = "render"
    /\ UNCHANGED <<ev, angle_x, angle_y, ax, frame, readerVars, queue,
                   hist, window, tick, pre, lineVars, proj>>

\* main.rs:145-165: az, the rotation, projection and rasterization of the
\* cube at (ax, ay, az), and the printing of the frame.
MainRender ==
    /\ mpc = "render"
    /\ LET az == AzOf(<<ax, ay>>)
           projected == ProjectedAt[<<ax, ay>>]
           drawn == WriteAll(FreshScreen(frame.screen), DrawnAt[<<ax, ay>>])
       IN  frame' = [x |-> ax, y |-> ay, z |-> az, projected |-> projected,
                     screen |-> drawn,
                     gone |-> DOMAIN frame.screen \ DOMAIN drawn # {}]
    /\ mark' = IF mark.at = "read" THEN [mark EXCEPT !.at = "framed"] ELSE mark
    /\ mpc' = "sleep"
    /\ UNCHANGED <<ev, angle_x, angle_y, ax, ay, locks, readerVars, queue,
                   hist, window, tick, pre, seen, lineVars, proj>>

\* A tick that ends by turning the cube a step on its own.
MainSleepSpin ==
    /\ mpc = "sleep"
    /\ angle_x' = F32Add(angle_x, Tenth)
    /\ mpc' = "recv"
    /\ tick' = [x |-> angle_x, y |-> angle_y, drained |-> FALSE]
    /\ UNCHANGED <<ev, angle_y, ax, ay, frame, locks, readerVars, queue,
                   hist, window, pre, seen, mark, lineVars, proj>>

\* main.rs:167: thread::sleep, the end of the tick.
MainSleep ==
    /\ mpc = "sleep"
    /\ mpc' = "recv"
    /\ tick' = [x |-> angle_x, y |-> angle_y, drained |-> FALSE]
    /\ UNCHANGED <<ev, angle_x, angle_y, ax, ay, frame, locks, readerVars, queue,
                   hist, window, pre, seen, mark, lineVars, proj>>

MainNext(keep) ==
    \/ MainRecv(keep)
    \/ MainLock("lock_x", "x", "add_x") \/ MainAddX(keep)
    \/ MainLock("lock_y", "y", "add_y") \/ MainAddY(keep)
    \/ MainClear
    \/ MainLock("rlock_x", "x", "read_x") \/ MainReadX
    \/ MainLock("rlock_y", "y", "read_y") \/ MainReadY
    \/ MainRender \/ MainSleep

-----------------------------------------------------------------------------
(* The specifications.                                                     *)

\* The state of main and of the input thread as they start.
SysStart ==
    /\ rpc = "read" /\ buf = <<0, 0, 0>> /\ rd = [ok |-> TRUE, n |-> 0]
    /\ queue = <<>>
    /\ mpc = "recv" /\ ev = <<0, 0>>
    /\ angle_x = 0 /\ angle_y = 0 /\ ax = 0 /\ ay = 0
    /\ frame = [x |-> 0, y |-> 0, z |-> 0, projected |-> [i \in 1 .. 8 |-> <<0, 0>>],
                screen |-> BlankScreen, gone |-> FALSE]
    /\ locks = [x |-> FALSE, y |-> FALSE]
    /\ hist = [sent |-> <<>>, keys |-> <<>>, recvd |-> <<>>, reads |-> 0, occ |-> 0, nx |-> 0, ny |-> 0]
    /\ window = <<>>
    /\ tick = [x |-> 0, y |-> 0, drained |-> FALSE]
    /\ pre = [x |-> 0, y |-> 0, done |-> FALSE]
    /\ seen = [x |-> 0, y |-> 0]
    /\ mark = [at |-> "none", pos |-> 0]

\* No call of project on its own.
ProjIdle ==
    proj = [pc |-> "idle", v |-> Vec3(FlInt(0), FlInt(0), FlInt(0)),
            out |-> Project(Vec3(FlInt(0), FlInt(0), FlInt(0)))]

\* No call of draw_line.
LineIdle ==
    /\ line = [LineEntry(0, 0, 0, 0) EXCEPT !.pc = "idle"]
    /\ from = <<0, 0>>
    /\ screen = BlankScreen
    /\ path = <<>>

\* draw_line alone, on a blank buffer, for each pair of endpoints tried.
LineInit ==
    /\ \E ax0 \in LineXs, ay0 \in LineYs :
          \E p1 \in LineEnds(ax0, ay0) :
              /\ line = LineEntry(ax0, ay0, p1[1], p1[2])
              /\ from = <<ax0, ay0>>
    /\ screen = BlankScreen
    /\ path = <<>>
    /\ SysStart
    /\ ProjIdle

LineNext == LinePlot \/ LineBreak \/ LineStep

SpecLine == LineInit /\ [][LineNext]_vars

\* project alone, on each input tried.
ProjInit ==
    /\ \E v \in ProjInputs : proj = [pc |-> "call", v |-> v, out |-> Project(Vec3(FlInt(0), FlInt(0), FlInt(0)))]
    /\ LineIdle
    /\ SysStart

ProjNext == ProjectCall

SpecProject == ProjInit /\ [][ProjNext]_vars

Init == LineIdle /\ SysStart /\ ProjIdle

\* The input thread alone, on every byte string and every way to deliver it.
ReaderNext == ReaderRead(TRUE, AllReads) \/ ReaderDecode(TRUE)

SpecReader == Init /\ [][ReaderNext]_vars

\* The two threads, for an input of at most MaxReads reads.
Next == ReaderRead(TRUE, KeyReads) \/ ReaderDecode(TRUE) \/ MainNext(TRUE)

Spec == Init /\ [][Next]_vars

\* The two threads, for an input of at most MaxReads arrow keys.
FrameNext == ReaderRead(TRUE, ArrowReads) \/ ReaderDecode(TRUE) \/ MainNext(TRUE)

SpecFrames == Init /\ [][FrameNext]_vars

\* Both threads keep running: the animation loop takes its next step, the
\* input thread handles what it has read.  (When stdin delivers is up to
\* the user.)
FairSpec == Spec /\ WF_vars(MainNext(TRUE)) /\ WF_vars(ReaderDecode(TRUE))

\* The two threads, for an input that never ends.
FloodNext == ReaderRead(FALSE, FloodReads) \/ ReaderDecode(FALSE) \/ MainNext(FALSE)

FloodSpec ==
    Init /\ [][FloodNext]_vars /\ WF_vars(MainNext(FALSE)) /\ WF_vars(ReaderDecode(FALSE))

-----------------------------------------------------------------------------
(* Properties of draw_line, under SpecLine.                                *)

Cheb(px, py, qx, qy) == Max(Abs(qx - px), Abs(qy - py))

InBoundsEnds == IndexOk(from[1], from[2]) /\ IndexOk(line.x1, line.y1)

PathCells == {path[i] : i \in 1 .. Len(path)}

\* C1: for in-bounds endpoints draw_line terminates: every iteration brings
\* the current point one step nearer (in the larger of the two coordinate
\* distances) to the endpoint, it never passes the endpoint in either
\* coordinate, the loop can always take its next step, and it breaks exactly
\* at (x0, y0) = (x1, y1), after max(|x1-x0|, |y1-y0|) + 1 iterations.
C1_Terminates ==
    InBoundsEnds =>
        /\ line.pc \in {"plot", "test", "done"}
        /\ Len(path) + Cheb(line.x0, line.y0, line.x1, line.y1)
              = Cheb(from[1], from[2], line.x1, line.y1)
                  + (IF line.pc = "plot" THEN 0 ELSE 1)
        /\ (line.x1 - line.x0) * line.sx >= 0
        /\ (line.y1 - line.y0) * line.sy >= 0
        /\ line.pc = "done" => line.x0 = line.x1 /\ line.y0 = line.y1
        /\ line.pc # "done" => ENABLED LineNext

\* A long line drawn right to left and upwards has been finished.
C1_Witness ==
    /\ InBoundsEnds /\ line.pc = "done"
    /\ line.sx = -1 /\ line.sy = -1
    /\ line.dx >= WIDTH - 1 - LineSpan /\ line.dy < -1
    /\ Len(path) = line.dx + 1

\* C2: draw_line never writes outside the buffer: every cell written lies in
\* 0 <= x < WIDTH, 0 <= y < HEIGHT, what was written there is the marker '#',
\* and no write indexes the buffer out of range (which would panic), whatever
\* the endpoints.
C2_WritesInBounds ==
    /\ line.pc # "panic"
    /\ \A c \in DOMAIN screen : IndexOk(c[1], c[2]) /\ screen[c] = Marker

\* A finished line with an endpoint outside the buffer: some iterations
\* wrote, some were skipped by the test.
C2_Witness ==
    /\ line.pc = "done"
    /\ DOMAIN screen # {}
    /\ \E i \in 1 .. Len(path) : ~IndexOk(path[i][1], path[i][2])

\* C3: for in-bounds endpoints the iterations visit a simple path: it starts
\* at p0, no point occurs twice, consecutive points differ by at most 1 in x
\* and at most 1 in y and in at least one of them, the cells marked are
\* exactly the points visited, and when the loop has broken the last point
\* is p1.
C3_SimplePath ==
    InBoundsEnds =>
        /\ path # <<>> => path[1] = from
        /\ Cardinality(PathCells) = Len(path)
        /\ \A i \in 1 .. Len(path) - 1 :
              /\ Abs(path[i + 1][1] - path[i][1]) <= 1
              /\ Abs(path[i + 1][2] - path[i][2]) <= 1
              /\ path[i + 1] # path[i]
        /\ line.pc # "plot" => DOMAIN screen = PathCells
        /\ line.pc = "done" => path[Len(path)] = <<line.x1, line.y1>>

\* A finished line that moved in both coordinates, with diagonal and
\* straight steps.
C3_Witness ==
    /\ InBoundsEnds /\ line.pc = "done"
    /\ line.dx > 1 /\ line.dy < -1 /\ line.dx # -line.dy
    /\ Len(path) > 2

\* C15: a line from an in-bounds point to itself makes one iteration and
\* then breaks: it marks that one cell and leaves every other cell blank.
C15_DegenerateLine ==
    (InBoundsEnds /\ from = <<line.x1, line.y1>>) =>
        /\ line.pc = "plot" => path = <<>> /\ screen = BlankScreen
        /\ line.pc # "plot" =>
              /\ path = <<from>>
              /\ DOMAIN screen = {from}
              /\ \A x \in 0 .. WIDTH - 1, y \in 0 .. HEIGHT - 1 :
                    CellAt(screen, x, y) = IF <<x, y>> = from THEN Marker ELSE Blank
        /\ line.pc = "test" => ENABLED LineBreak /\ ~ENABLED LineStep
        /\ line.pc \in {"plot", "test", "done"}

\* The line from the bottom right cell to itself is finished.
C15_Witness ==
    /\ line.pc = "done"
    /\ from = <<WIDTH - 1, HEIGHT - 1>> /\ line.x1 = WIDTH - 1 /\ line.y1 = HEIGHT - 1
    /\ CellAt(screen, WIDTH - 1, HEIGHT - 1) = Marker

\* The cells of row y from column a to column b, whichever is the greater.
RowCells(a, b, y) == {<<x, y>> : x \in Min(a, b) .. Max(a, b)}

\* C16: a finished line between two in-bounds points of one row has marked
\* exactly the cells of that row between the two columns, both included,
\* and no other cell; from (0, 0) to (WIDTH-1, 0) these are the WIDTH cells
\* of row 0, one in each column.
C16_HorizontalLine ==
    (InBoundsEnds /\ from[2] = line.y1 /\ line.pc = "done") =>
        /\ DOMAIN screen = RowCells(from[1], line.x1, line.y1)
        /\ \A c \in DOMAIN screen : screen[c] = Marker
        /\ Cardinality(DOMAIN screen) = Abs(line.x1 - from[1]) + 1
        /\ (from = <<0, 0>> /\ line.x1 = WIDTH - 1) =>
              /\ Cardinality(DOMAIN screen) = WIDTH
              /\ \A x \in 0 .. WIDTH - 1 : CellAt(screen, x, 0) = Marker

\* The line from (0, 0) to (WIDTH-1, 0) is finished.
C16_Witness ==
    /\ line.pc = "done"
    /\ from = <<0, 0>> /\ line.x1 = WIDTH - 1 /\ line.y1 = 0
    /\ Len(path) = WIDTH

\* Whether (x, y) lies in the bounding rectangle of the two endpoints.
InRectangle(x, y) ==
    /\ Min(from[1], line.x1) <= x /\ x <= Max(from[1], line.x1)
    /\ Min(from[2], line.y1) <= y /\ y <= Max(from[2], line.y1)

\* C19: for in-bounds endpoints the current point is at every iteration
\* inside the bounding rectangle of the two endpoints, so the test before
\* the write holds at every point visited and every one of them is marked.
C19_InsideRectangle ==
    InBoundsEnds =>
        /\ InRectangle(line.x0, line.y0)
        /\ \A i \in 1 .. Len(path) :
              /\ InRectangle(path[i][1], path[i][2])
              /\ PlotGuard(path[i][1], path[i][2])
              /\ CellAt(screen, path[i][1], path[i][2]) = Marker

\* A finished line drawn up and to the left, more than two columns and two
\* rows long, with every point it visited marked.
C19_Witness ==
    /\ InBoundsEnds /\ line.pc = "done"
    /\ line.sx = -1 /\ line.sy = -1 /\ line.dx > 2 /\ line.dy < -2
    /\ \A i \in 1 .. Len(path) : CellAt(screen, path[i][1], path[i][2]) = Marker

-----------------------------------------------------------------------------
(* Properties of project, under SpecProject.                               *)

\* C13: project returns without a panic, and what it returns lies on the
\* screen, 0 <= sx <= WIDTH-1 and 0 <= sy <= HEIGHT-1, for every finite
\* point; for one with z + DISTANCE = 0 a coordinate is the last column
\* (row) if the point's x (y) is above 0, and column (row) 0 otherwise.
C13_ProjectOnScreen ==
    proj.pc = "done" =>
        /\ ~proj.out.panic
        /\ proj.out.x \in 0 .. WIDTH - 1
        /\ proj.out.y \in 0 .. HEIGHT - 1
        /\ FlAdd(proj.v.z, DISTANCE) = FlInt(0) =>
              /\ proj.out.x = IF proj.v.x.n > 0 THEN WIDTH - 1 ELSE 0
              /\ proj.out.y = IF proj.v.y.n > 0 THEN HEIGHT - 1 ELSE 0

\* project has returned for a point with z + DISTANCE = 0 whose x is 0 (the
\* product is NaN) and whose y is below 0 (the product is -infinity).
C13_Witness ==
    /\ proj.pc = "done"
    /\ proj.v.z = FlInt(-3) /\ proj.v.x = FlInt(0) /\ proj.v.y = FlInt(-1)
    /\ Factor(proj.v) = Inf(1)
    /\ proj.out.x = 0 /\ proj.out.y = 0

\* project has returned for a huge x whose product with the factor is
\* finite, and for one whose product overflows.
ProjHugeFinite ==
    /\ proj.pc = "done" /\ proj.v.x.e > 0
    /\ FlMul(proj.v.x, Factor(proj.v)).k = "fin" /\ proj.out.x = 0

ProjHugeOverflow ==
    /\ proj.pc = "done" /\ proj.v.x.e > 0 /\ Factor(proj.v).k = "fin"
    /\ FlMul(proj.v.x, Factor(proj.v)).k = "inf" /\ proj.out.x = WIDTH - 1

\* project has returned a point that the clamp left as it was.
ProjUnclamped ==
    /\ proj.pc = "done"
    /\ proj.out.raw[1] = [sat |-> 0, n |-> proj.out.x] /\ proj.out.x \notin {0, WIDTH - 1}
    /\ proj.out.raw[2] = [sat |-> 0, n |-> proj.out.y] /\ proj.out.y \notin {0, HEIGHT - 1}
    /\ proj.v.z.n < 0

-----------------------------------------------------------------------------
(* Properties of the two threads.                                          *)

\* The events whose component k (1 for dx, 2 for dy) the drain has added.
Added(k) ==
    IF NotAdded(k)
    THEN SubSeq(hist.recvd, 1, Len(hist.recvd) - 1)
    ELSE hist.recvd

\* C4: no event is dropped, duplicated or reordered: the events sent are, in
\* order, those the drain has received followed by those in the channel; x
\* is the f32 sum, in that order, of the dx of the received events whose dx
\* is added, and y of the dy; and the input thread's send is never held up.
C4_NoLoss ==
    /\ hist.sent = hist.recvd \o queue
    /\ angle_x = SumFrom(0, Added(1), 1)
    /\ angle_y = SumFrom(0, Added(2), 2)
    /\ rpc = "decode" => ENABLED ReaderDecode(TRUE)

\* Two different events are applied while a third waits in the channel.
C4_Witness ==
    /\ Len(hist.recvd) = 2 /\ hist.recvd[1] # hist.recvd[2]
    /\ Len(queue) = 1 /\ mpc = "recv"
    /\ angle_x # 0 /\ angle_y # 0

\* C5: every ESC [ A/B/C/D that stdin has delivered, however the reads cut
\* the byte stream, has caused exactly one event: whenever the input thread
\* is back at its read, the events sent are as many as the sequences
\* delivered.
C5_EveryArrowOneEvent == rpc = "read" => Len(hist.sent) = hist.occ

\* The key whose event was applied last.
LastKey == hist.keys[Len(hist.recvd)]

\* C6 as claimed: once the event of a key is applied, its axis has changed
\* by exactly 0.1 and the other axis is unchanged.
C6_ExactTenth ==
    pre.done =>
        /\ LastKey = 65 => angle_x - pre.x = Tenth /\ angle_y = pre.y
        /\ LastKey = 66 => angle_x - pre.x = -Tenth /\ angle_y = pre.y
        /\ LastKey = 67 => angle_y - pre.y = Tenth /\ angle_x = pre.x
        /\ LastKey = 68 => angle_y - pre.y = -Tenth /\ angle_x = pre.x

\* |got - want| is at most half the spacing of the f32 values at got.
WithinHalfUlp(got, want) == 2 * Abs(got - want) <= Quantum(Abs(got), 1)

\* C6: once the event of a key is applied, the other axis is unchanged and
\* the key's axis holds the f32 sum of its old value and 0.1 (Up: x, Right:
\* y) or -0.1 (Down: x, Left: y): within half the spacing of the f32 values
\* of the exact sum, and equal to it when the old value was 0.
C6_RoundedTenth ==
    pre.done =>
        LET d == CASE LastKey = 65 -> <<Tenth, 0>> [] LastKey = 66 -> <<-Tenth, 0>>
                   [] LastKey = 67 -> <<0, Tenth>> [] LastKey = 68 -> <<0, -Tenth>>
        IN  /\ WithinHalfUlp(angle_x, pre.x + d[1])
            /\ WithinHalfUlp(angle_y, pre.y + d[2])
            /\ d[1] = 0 \/ pre.x = 0 => angle_x = pre.x + d[1]
            /\ d[2] = 0 \/ pre.y = 0 => angle_y = pre.y + d[2]

\* An Up is applied whose sum was rounded: x has not changed by exactly 0.1.
C6_Witness ==
    /\ pre.done /\ LastKey = 65
    /\ angle_x # pre.x + Tenth /\ angle_y = pre.y

\* The read at hand is an error, is short, or is no arrow-key sequence.
NonMatching ==
    \/ ~rd.ok \/ rd.n < 3
    \/ <<buf[1], buf[2]>> # EscPrefix \/ buf[3] \notin ArrowCodes

UnchangedByReader ==
    /\ queue' = queue /\ hist'.sent = hist.sent
    /\ angle_x' = angle_x /\ angle_y' = angle_y

\* C7: a read that fails, is short or is no arrow-key sequence has no
\* effect: stdin.read itself, and the handling of such a read, leave the
\* channel and the angles unchanged, send nothing, and the input thread,
\* which can always take this step, is back at its read.
C7_NoEffect ==
    /\ [](rpc = "decode" => ENABLED ReaderDecode(TRUE))
    /\ [][rpc = "read" /\ rpc' # rpc => rpc' = "decode" /\ UnchangedByReader]_vars
    /\ [][rpc = "decode" /\ rpc' # rpc /\ NonMatching
            => rpc' = "read" /\ UnchangedByReader]_vars

\* After an arrow key was sent, a short read left the key's bytes in the
\* rest of the buffer, was handled, and the input thread reads again.
C7_Witness ==
    /\ rpc = "decode" /\ hist.reads = MaxReads /\ Len(queue) = 1
    /\ rd.ok /\ rd.n = 1 /\ buf[1] = 27 /\ buf[2] = 91 /\ buf[3] = 65

\* C8: a tick whose drain received nothing leaves the angles as they were
\* at its start, whatever the input thread does meanwhile; and the angles
\* change only in the two adds of the drain.
C8_DrainOnly ==
    /\ [](~tick.drained => angle_x = tick.x /\ angle_y = tick.y)
    /\ [][angle_x' # angle_x \/ angle_y' # angle_y
            => mpc \in {"add_x", "add_y"} /\ mpc' # mpc /\ rpc' = rpc]_vars

\* A tick that drained nothing ends at a nonzero angle, while the input
\* thread has put an event on the channel during it.
C8_Witness ==
    /\ mpc = "sleep" /\ ~tick.drained
    /\ angle_x # 0 /\ Len(queue) = 1 /\ rpc = "decode"

\* The x read for the frame includes the dx of an event whose dy the y read
\* for the same frame does not include.
TornRead == mpc \in {"render", "sleep"} /\ seen.x > seen.y

C10_EveryEventFramed == (mark.at = "queued") ~> (mark.at = "framed")

\* The part of C10 that holds for an input that never ends: every event put
\* on the channel is in the end received and added to x and y.
EveryEventApplied == (mark.at = "queued") ~> (mark.at \in {"applied", "read", "framed"})

\* C11: a mutex is locked only while main is in the one statement that adds
\* to or reads its angle: the two are never locked together, neither is
\* locked while main receives, clears, renders or sleeps, and whenever main
\* comes to lock one it is free, so that no thread waits for a lock forever.
C11_LocksScoped ==
    /\ ~(locks.x /\ locks.y)
    /\ locks.x => mpc \in {"add_x", "read_x"}
    /\ locks.y => mpc \in {"add_y", "read_y"}
    /\ mpc \in {"lock_x", "rlock_x"} => ~locks.x
    /\ mpc \in {"lock_y", "rlock_y"} => ~locks.y

\* main holds the y mutex for the add of a second event, while the input
\* thread is about to send another.
C11_Witness ==
    /\ locks.y /\ mpc = "add_y" /\ Len(hist.recvd) = 2
    /\ rpc = "decode" /\ Decode(rd, buf) # NoEvent

\* C17: with both threads kept running, main prints frame after frame: it
\* is again and again at the sleep that follows a printed frame, also for
\* an input that never ends.
C17_FramesForever == []<>(mpc = "sleep")

\* The part of C17 that holds for an input that never ends: main is never
\* stuck, every test of the drain and every add is followed by the next.
DrainKeepsTurning == []<>(mpc = "recv")

\* The order of the steps of a tick: the drain (a test, then for an event
\* the two adds, then the next test), after its last test the clear, the
\* read of x, the read of y, the render and the sleep.
TickOrder ==
    {<<"recv", "lock_x">>, <<"lock_x", "add_x">>, <<"add_x", "lock_y">>,
     <<"lock_y", "add_y">>, <<"add_y", "recv">>, <<"recv", "clear">>,
     <<"clear", "rlock_x">>, <<"rlock_x", "read_x">>, <<"read_x", "rlock_y">>,
     <<"rlock_y", "read_y">>, <<"read_y", "render">>, <<"render", "sleep">>,
     <<"sleep", "recv">>}

\* C18: the steps of a tick run in the order drain, read, render, and the
\* drain is left only by a test that finds the channel empty; so the x and
\* y of a printed frame are the angles as every event received so far (those
\* of this tick's drain included) has left them, and its z is the f32 value
\* of 0.5*x + 0.5*y for these two: the f32 nearest to half their sum.
C18_DrainReadRender ==
    /\ [][mpc' # mpc => /\ <<mpc, mpc'>> \in TickOrder
                        /\ mpc' = "clear" => queue = <<>>]_vars
    /\ [](mpc = "sleep" =>
            /\ frame.x = SumFrom(0, hist.recvd, 1) /\ frame.x = angle_x
            /\ frame.y = SumFrom(0, hist.recvd, 2) /\ frame.y = angle_y
            /\ hist.nx = Len(hist.recvd) /\ hist.ny = Len(hist.recvd)
            /\ WithinHalfUlp(frame.z, (frame.x \div 2) + (frame.y \div 2))
            /\ frame.z = F32Round(frame.z))

\* A frame is printed in a tick whose drain received an event, at nonzero
\* angles whose half sum had to be rounded.
C18_Witness ==
    /\ mpc = "sleep" /\ tick.drained
    /\ frame.x # 0 /\ frame.y # 0
    /\ frame.z # (frame.x \div 2) + (frame.y \div 2)

-----------------------------------------------------------------------------
(* Properties of the frames.                                               *)

\* The cells draw_line writes on a blank buffer for the edge e between the
\* vertices pts.
EdgeCells(pts, e) == DOMAIN DrawLine(pts[e[1] + 1], pts[e[2] + 1], BlankScreen)

\* C12: the buffer printed in a tick has HEIGHT rows of WIDTH cells, each
\* ' ' or '#', and its '#' cells are exactly the cells draw_line plots for
\* the twelve edges between this tick's projected vertices: whatever an
\* earlier frame had marked elsewhere is blank.
C12_FrameShape ==
    mpc = "sleep" =>
        LET out == PrintScreen(frame.screen)
            plotted == UNION {EdgeCells(frame.projected, edges[i]) : i \in 1 .. Len(edges)}
        IN  /\ DOMAIN out = 1 .. HEIGHT
            /\ \A r \in 1 .. HEIGHT :
                  /\ DOMAIN out[r] = 1 .. WIDTH
                  /\ \A c \in 1 .. WIDTH :
                        out[r][c] = IF <<c - 1, r - 1>> \in plotted THEN Marker ELSE Blank
            /\ frame.projected = Projected(ax, ay, frame.z)

\* A frame is printed at angles other than zero in which a cell marked in
\* the frame before it is blank.
C12_Witness ==
    /\ mpc = "sleep" /\ frame.gone
    /\ frame.x # 0 /\ frame.y # 0
    /\ DOMAIN frame.screen # {}

\* The projected vertices at zero rotation, as SCALE = 20, DISTANCE = 3,
\* WIDTH = 80 and HEIGHT = 24 give them: 40 -+ 10, 12 -+ 10 for z = -1 and
\* 40 -+ 5, 12 -+ 5 for z = 1.
Reference ==
    <<<<30, 2>>, <<50, 2>>, <<50, 22>>, <<30, 22>>,
      <<35, 7>>, <<45, 7>>, <<45, 17>>, <<35, 17>>>>

\* The border of the rectangle of the columns x0 .. x1 and rows y0 .. y1.
Border(x0, x1, y0, y1) ==
    {<<x, y>> : x \in x0 .. x1, y \in {y0, y1}}
        \cup {<<x, y>> : x \in {x0, x1}, y \in y0 .. y1}

\* The grid of the cube at zero rotation: two squares and the four
\* diagonals between their corners.
ReferenceGrid ==
    Border(30, 50, 2, 22) \cup Border(35, 45, 7, 17)
        \cup UNION {{<<30 + i, 2 + i>>, <<50 - i, 2 + i>>,
                     <<50 - i, 22 - i>>, <<30 + i, 22 - i>>} : i \in 0 .. 5}

\* C14: a frame at the angles (0, 0) has z = 0, its eight projected
\* vertices are those of Reference, none of them changed by the clamp, and
\* its '#' cells are those of ReferenceGrid; and every frame printed before
\* any event is applied is such a frame.
C14_ZeroRotation ==
    mpc = "sleep" =>
        /\ hist.recvd = <<>> => frame.x = 0 /\ frame.y = 0
        /\ (frame.x = 0 /\ frame.y = 0) =>
              /\ frame.z = 0
              /\ frame.projected = Reference
              /\ \A i \in 1 .. 8 :
                    LET rotated == Rotate(cube[i], frame.x, frame.y, frame.z)
                    IN  /\ rotated = cube[i]
                        /\ Project(rotated).raw
                              = <<[sat |-> 0, n |-> Reference[i][1]],
                                  [sat |-> 0, n |-> Reference[i][2]]>>
              /\ DOMAIN frame.screen = ReferenceGrid
              /\ \A c \in ReferenceGrid : frame.screen[c] = Marker

\* A frame is printed before any event is applied, while the input thread
\* has put one on the channel.
C14_Witness ==
    /\ mpc = "sleep" /\ hist.recvd = <<>> /\ Len(queue) = 1
    /\ frame.projected = Reference
    /\ DOMAIN frame.screen = ReferenceGrid

\* The entry of PoseTable for the angles (0, 0) is what rotate and project
\* give there.
PoseTableAtZero == PoseTable[<<0, 0>>] = Projected(0, 0, 0)

\* A finished draw_line has written what DrawLine gives for its endpoints.
LineAgrees ==
    line.pc = "done" => screen = DrawLine(from, <<line.x1, line.y1>>, BlankScreen)

=============================================================================
